---- MODULE Spec2Model ----
(***************************************************************************)
(* Self-organizing-map training and labelling of ark/phenotyping/cluster.py *)
(* (decay_function, winner, update, train_som, cluster_som), and the        *)
(* nucleus splitting of ark/utils/segmentation_utils.py.                    *)
(*                                                                          *)
(* Floats are fixed-point integers counting thousandths (One = 1.0); every  *)
(* product and quotient is rounded to the nearest thousandth, as a float    *)
(* operation rounds to the nearest representable value.  nan and the two    *)
(* infinities are three reserved values outside the range ever computed.    *)
(* Arrays are functions on 0-based index ranges; a channel vector is a      *)
(* sequence.  A DataFrame is [cols, rows] on the default RangeIndex, so     *)
(* that .loc[row, :] is the row at position row.                            *)
(***************************************************************************)
EXTENDS Integers, Sequences, FiniteSets, TLC

VARIABLES
    pixel_mat, x_neurons, y_neurons, num_passes, sigma, learning_rate, random_seed,
    rand_gen, weights, x_mesh, y_mesh, num_iters, iter_row, t, winning_coords,
    decay_sigma, decay_learning_rate, pc, result,
    visited, n_updates, search_read, update_out, call, grid0,
    cell_segmentation_mask, nuc_segmentation_mask, cell_ids, nuc_mask_modified,
    max_nuc_id, cell_iter,
    cell_data, transform, transform_kwargs, cell_data_transformed

vars == <<pixel_mat, x_neurons, y_neurons, num_passes, sigma, learning_rate, random_seed,
          rand_gen, weights, x_mesh, y_mesh, num_iters, iter_row, t, winning_coords,
          decay_sigma, decay_learning_rate, pc, result,
          visited, n_updates, search_read, update_out, call, grid0,
          cell_segmentation_mask, nuc_segmentation_mask, cell_ids, nuc_mask_modified,
          max_nuc_id, cell_iter,
          cell_data, transform, transform_kwargs, cell_data_transformed>>

\* the arguments of train_som
inputs == <<pixel_mat, x_neurons, y_neurons, num_passes, sigma, learning_rate, random_seed>>

\* the arguments and the local variables of split_large_nuclei
masks == <<cell_segmentation_mask, nuc_segmentation_mask, cell_ids, nuc_mask_modified,
           max_nuc_id, cell_iter>>

\* no call of split_large_nuclei is under way
NotSplitting ==
    /\ cell_segmentation_mask = <<>>
    /\ nuc_segmentation_mask = <<>>
    /\ cell_ids = <<>>
    /\ nuc_mask_modified = <<>>
    /\ max_nuc_id = 0
    /\ cell_iter = 0

\* the arguments and the result of transform_expression_matrix
arrays == <<cell_data, transform, transform_kwargs, cell_data_transformed>>

\* no call of transform_expression_matrix is under way
NotTransforming ==
    /\ cell_data = <<>>
    /\ transform = ""
    /\ transform_kwargs = [is_none |-> TRUE]
    /\ cell_data_transformed = <<>>

\* the local variables of train_som that only its initialization assigns
setup == <<rand_gen, x_mesh, y_mesh, num_iters, iter_row>>

----------------------------------------------------------------------------
(* Bounds of the model *)

MaxRows == 2
MaxPasses == 2
MaxCells == 3
MaxSeed == 2
MaxIters == 4
MaxPixels == 3
MaxDataCells == 2

----------------------------------------------------------------------------
(* Floating point *)

One == 1000
Pi == 3142
DefaultSigma == 1000
DefaultLearningRate == 500

NaN == -(2^30)
NegInf == NaN + 1
PosInf == NaN + 2

\* n / d rounded to the nearest integer (d > 0), halves away from zero
RoundDiv(n, d) == IF n >= 0 THEN (2 * n + d) \div (2 * d) ELSE -((2 * (-n) + d) \div (2 * d))

FAdd(a, b) == IF a = NaN \/ b = NaN THEN NaN ELSE a + b

FSub(a, b) == IF a = NaN \/ b = NaN THEN NaN ELSE a - b

FNeg(a) == IF a = NaN THEN NaN ELSE IF a = NegInf THEN PosInf ELSE IF a = PosInf THEN NegInf ELSE -a

FMul(a, b) == IF a = NaN \/ b = NaN THEN NaN ELSE RoundDiv(a * b, One)

\* numpy's true division: x / 0 is nan for x = 0 and an infinity otherwise
FDiv(a, b) ==
    IF a = NaN \/ b = NaN THEN NaN
    ELSE IF b = 0 THEN (IF a = 0 THEN NaN ELSE IF a > 0 THEN PosInf ELSE NegInf)
    ELSE IF b > 0 THEN RoundDiv(a * One, b) ELSE RoundDiv((-a) * One, -b)

RECURSIVE SqrtSearch(_, _, _)
SqrtSearch(n, lo, hi) ==
    IF lo >= hi THEN lo
    ELSE LET mid == (lo + hi + 1) \div 2
         IN  IF mid * mid <= n THEN SqrtSearch(n, mid, hi) ELSE SqrtSearch(n, lo, mid - 1)

\* the integer nearest to the square root of n >= 0
ISqrt(n) ==
    LET r == SqrtSearch(n, 0, 4095)
    IN  IF n - r * r > r THEN r + 1 ELSE r

\* np.exp on an argument a <= 0: the reciprocal of the cubic Taylor polynomial of
\* e^(-a), which is 1 at 0, falls as -a grows and reaches 0 (underflow) far out
FExp(a) ==
    IF a = NaN THEN NaN
    ELSE IF a = NegInf \/ -a >= 20 * One THEN 0
    ELSE LET r  == -a
             r2 == (r * r) \div One
         IN  RoundDiv(One * One, One + r + r2 \div 2 + ((r2 \div 6) * r) \div One)

----------------------------------------------------------------------------
(* Arrays *)

RECURSIVE SumSeq(_)
SumSeq(s) == IF s = <<>> THEN 0 ELSE Head(s) + SumSeq(Tail(s))

Range(f) == {f[i] : i \in DOMAIN f}

\* the shape (X, Y, C) of a weight matrix
Shape(w) == <<Cardinality(DOMAIN w), Cardinality(DOMAIN w[0]), Len(w[0][0])>>

\* the index pairs (x, y) of a non-empty array of at least two dimensions
Cells(w) == (DOMAIN w) \X (DOMAIN w[0])

\* the transpose m.T of a two-dimensional array
Transpose(m) == [j \in DOMAIN m[0] |-> [i \in DOMAIN m |-> m[i][j]]]

\* np.meshgrid(np.arange(nx), np.arange(ny)), as floats: two arrays of shape (ny, nx)
meshgrid(nx, ny) ==
    [x |-> [j \in 0 .. ny - 1 |-> [i \in 0 .. nx - 1 |-> i * One]],
     y |-> [j \in 0 .. ny - 1 |-> [i \in 0 .. nx - 1 |-> j * One]]]

\* np.linalg.norm(v) of one vector: sqrt(sum(v ** 2)); nan if a component is nan
norm(v) ==
    IF \E k \in DOMAIN v : v[k] = NaN THEN NaN
    ELSE ISqrt(SumSeq([k \in DOMAIN v |-> v[k] * v[k]]))

----------------------------------------------------------------------------
(* decay_function *)

ZeroDivisionError == NaN + 3

\* Python float division, which raises on a zero divisor
PyDiv(a, b) ==
    IF a = ZeroDivisionError \/ b = ZeroDivisionError \/ b = 0 THEN ZeroDivisionError
    ELSE FDiv(a, b)

PyAdd(a, b) == IF a = ZeroDivisionError \/ b = ZeroDivisionError THEN ZeroDivisionError ELSE FAdd(a, b)

\* a decay that counts the iterations from one: param / (1 + (t + 1) / (num_iters / 2))
decay_function_FromOne(param, tt, n_iters) ==
    PyDiv(param, PyAdd(One, PyDiv((tt + 1) * One, PyDiv(n_iters * One, 2 * One))))

\* a decay twice as fast: param / (1 + t / (num_iters / 4))
decay_function_Quarter(param, tt, n_iters) ==
    PyDiv(param, PyAdd(One, PyDiv(tt * One, PyDiv(n_iters * One, 4 * One))))

\* param / (1 + t / (num_iters / 2)), t and num_iters integers
decay_function(param, tt, n_iters) ==
    PyDiv(param, PyAdd(One, PyDiv(tt * One, PyDiv(n_iters * One, 2 * One))))

----------------------------------------------------------------------------
(* winner *)

\* the outcome of a call: the exception raised ("" if none), the value returned,
\* and the weight matrix the caller passed as the call leaves it
Raised(e, w) == [raised |-> e, value |-> <<>>, weights |-> w]

Returned(v, w) == [raised |-> "", value |-> v, weights |-> w]

\* np.subtract(sample, weights): the sample is broadcast against the last axis of the
\* weights, which numpy allows when the two lengths agree or one of them is 1
Broadcastable(cs, c) == cs = c \/ cs = 1 \/ c = 1

BroadcastLen(cs, c) == IF cs >= c THEN cs ELSE c

At(v, k) == IF Len(v) = 1 THEN v[1] ELSE v[k]

\* np.subtract(sample, weights, out=weights): the difference overwrites the weights
subtract_InPlace(sample, w) ==
    LET diff == [x \in DOMAIN w |-> [y \in DOMAIN w[x] |->
                    [k \in 1 .. BroadcastLen(Len(sample), Len(w[x][y])) |->
                        FSub(At(sample, k), At(w[x][y], k))]]]
    IN  [out |-> diff, weights |-> diff]

\* the difference is a new array (out); the operand array is left as it was
subtract(sample, w) ==
    [out |-> [x \in DOMAIN w |-> [y \in DOMAIN w[x] |->
                 [k \in 1 .. BroadcastLen(Len(sample), Len(w[x][y])) |->
                     FSub(At(sample, k), At(w[x][y], k))]]],
     weights |-> w]

\* the activation map flattened in C (row-major) order: index x * Y + y
Flatten(m) ==
    LET nx == Cardinality(DOMAIN m)
        ny == Cardinality(DOMAIN m[0])
    IN  [i \in 0 .. nx * ny - 1 |-> m[i \div ny][i % ny]]

\* ndarray.argmin(): scans the flattened array and keeps the first index holding
\* the smallest value; a nan counts as the smallest
RECURSIVE ArgminScan(_, _, _)
ArgminScan(flat, i, best) ==
    IF i \notin DOMAIN flat THEN best
    ELSE IF flat[best] = NaN THEN best
    ELSE IF flat[i] = NaN \/ flat[i] < flat[best] THEN ArgminScan(flat, i + 1, i)
    ELSE ArgminScan(flat, i + 1, best)

\* a scan that keeps the last index holding the smallest value
RECURSIVE ArgminLastScan(_, _, _)
ArgminLastScan(flat, i, best) ==
    IF i \notin DOMAIN flat THEN best
    ELSE IF flat[i] <= flat[best] THEN ArgminLastScan(flat, i + 1, i)
    ELSE ArgminLastScan(flat, i + 1, best)

argmin_Last(flat) == ArgminLastScan(flat, 1, 0)

argmin(flat) == ArgminScan(flat, 1, 0)

\* np.unravel_index(i, shape) for a two-dimensional shape
unravel_index(i, shape) == <<i \div shape[2], i % shape[2]>>

\* np.linalg.norm(np.subtract(sample, weights), axis=-1)
activation(sample, w) ==
    LET diff == subtract(sample, w).out
    IN  [x \in DOMAIN w |-> [y \in DOMAIN w[x] |-> norm(diff[x][y])]]

\* a weight matrix with no neuron: x_neurons or y_neurons is 0
IsEmptyGrid(w) == DOMAIN w = {} \/ DOMAIN w[0] = {}

\* the subtraction raises ValueError on shapes that do not broadcast, and argmin
\* raises ValueError on an empty activation map
winner(sample, w) ==
    IF IsEmptyGrid(w) THEN Raised("ValueError", w)
    ELSE IF ~Broadcastable(Len(sample), Shape(w)[3]) THEN Raised("ValueError", w)
    ELSE LET activation_map == activation(sample, w)
         IN  Returned(unravel_index(argmin(Flatten(activation_map)),
                                    <<Shape(w)[1], Shape(w)[2]>>),
                      subtract(sample, w).weights)

----------------------------------------------------------------------------
(* update *)

\* np.power(a, 2)
power2(a) == FMul(a, a)

\* a Gaussian centred on the neuron (0, 0) whatever the winning coordinates
neighborhood_AtOrigin(coords, sig, lr, xm, ym) ==
    LET d  == FMul(FMul(FMul(2 * One, Pi), sig), sig)
        ax == [j \in DOMAIN xm |-> [i \in DOMAIN xm[j] |->
                  FExp(FDiv(FNeg(power2(xm[j][i])), d))]]
        ay == [j \in DOMAIN ym |-> [i \in DOMAIN ym[j] |->
                  FExp(FDiv(FNeg(power2(ym[j][i])), d))]]
        axay == [j \in DOMAIN ax |-> [i \in DOMAIN ax[j] |-> FMul(ax[j][i], ay[j][i])]]
    IN  [i \in DOMAIN Transpose(axay) |-> [j \in DOMAIN Transpose(axay)[i] |->
            FMul(Transpose(axay)[i][j], lr)]]

\* lines 74-77: the Gaussian neighbourhood g around the winning coordinates, an array
\* of shape (X, Y)
neighborhood(coords, sig, lr, xm, ym) ==
    LET d  == FMul(FMul(FMul(2 * One, Pi), sig), sig)
        wx == Transpose(xm)[coords[1]][coords[2]]
        wy == Transpose(ym)[coords[1]][coords[2]]
        ax == [j \in DOMAIN xm |-> [i \in DOMAIN xm[j] |->
                  FExp(FDiv(FNeg(power2(FSub(xm[j][i], wx))), d))]]
        ay == [j \in DOMAIN ym |-> [i \in DOMAIN ym[j] |->
                  FExp(FDiv(FNeg(power2(FSub(ym[j][i], wy))), d))]]
        axay == [j \in DOMAIN ax |-> [i \in DOMAIN ax[j] |-> FMul(ax[j][i], ay[j][i])]]
    IN  [i \in DOMAIN Transpose(axay) |-> [j \in DOMAIN Transpose(axay)[i] |->
            FMul(Transpose(axay)[i][j], lr)]]

\* an update that steps away from the sample: weights - g * (sample - weights)
update_Away(sample, w, coords, sig, lr, xm, ym) ==
    LET g == neighborhood(coords, sig, lr, xm, ym)
    IN  [i \in DOMAIN w |-> [j \in DOMAIN w[i] |-> [k \in DOMAIN w[i][j] |->
            FSub(w[i][j][k], FMul(g[i][j], FSub(sample[k], w[i][j][k])))]]]

\* an update that returns the array with its two grid axes exchanged:
\* np.einsum('ij, ijk->jik', ...)
update_Transposed(sample, w, coords, sig, lr, xm, ym) ==
    LET g == neighborhood(coords, sig, lr, xm, ym)
    IN  [j \in DOMAIN w[0] |-> [i \in DOMAIN w |-> [k \in DOMAIN w[i][j] |->
            FAdd(w[i][j][k], FMul(g[i][j], FSub(sample[k], w[i][j][k])))]]]

update(sample, w, coords, sig, lr, xm, ym) ==
    LET g == neighborhood(coords, sig, lr, xm, ym)
    IN  [i \in DOMAIN w |-> [j \in DOMAIN w[i] |-> [k \in DOMAIN w[i][j] |->
            FAdd(w[i][j][k], FMul(g[i][j], FSub(sample[k], w[i][j][k])))]]]

----------------------------------------------------------------------------
(* train_som *)

\* np.random.RandomState: a deterministic generator, here of period 8; its state
\* after seeding with an integer is a function of the seed
RandomState(seed) == seed % 8

RandAdvance(s) == (5 * s + 3) % 8

\* one draw of rand(): a float in [0, 1)
RandValue(s) == <<0, 250, 500, 750>>[(s \div 2) + 1]

RECURSIVE RandStateAfter(_, _)
RandStateAfter(s, n) == IF n = 0 THEN s ELSE RandStateAfter(RandAdvance(s), n - 1)

\* rand_gen.rand(nx, ny, nc): the draws fill the array in C order
rand(s, nx, ny, nc) ==
    [x \in 0 .. nx - 1 |-> [y \in 0 .. ny - 1 |-> [k \in 1 .. nc |->
        RandValue(RandStateAfter(s, (x * ny + y) * nc + (k - 1)))]]]

\* rand(...) * 2 - 1, then weights /= np.linalg.norm(weights, axis=-1, keepdims=True)
InitialWeights(s, nx, ny, nc) ==
    LET raw == [x \in 0 .. nx - 1 |-> [y \in 0 .. ny - 1 |-> [k \in 1 .. nc |->
                   FSub(FMul(rand(s, nx, ny, nc)[x][y][k], 2 * One), One)]]]
    IN  [x \in 0 .. nx - 1 |-> [y \in 0 .. ny - 1 |-> [k \in 1 .. nc |->
            FDiv(raw[x][y][k], norm(raw[x][y]))]]]

\* pixel_mat.shape
NRows(mat) == Len(mat.rows)

NCols(mat) == mat.cols

\* pixel_mat.index: the row labels, 0 .. N - 1 (the default RangeIndex) unless the
\* frame carries an index of its own
Index(mat) == IF "index" \in DOMAIN mat THEN mat.index ELSE [i \in 1 .. Len(mat.rows) |-> i - 1]

\* .loc raises KeyError for a label the index does not hold
HasLabel(mat, row) == \E i \in DOMAIN Index(mat) : Index(mat)[i] = row

\* pixel_mat.loc[row, :].values: the row whose label is row
loc(mat, row) == mat.rows[CHOOSE i \in DOMAIN Index(mat) : Index(mat)[i] = row]

\* a schedule that starts at row 1: np.arange(1, n + 1) % m
ArangeMod_FromOne(n, m) == [i \in 1 .. n |-> i % m]

\* np.arange(n) % m, as the sequence of its elements (empty when n <= 0)
ArangeMod(n, m) == [i \in 1 .. n |-> (i - 1) % m]

SampleRows(c) == IF c = 1 THEN {<<0>>, <<One>>} ELSE {<<One, 0>>, <<0, One>>}

SeqsUpTo(S, n) == UNION {[1 .. k -> S] : k \in 0 .. n}

Matrices == UNION {{[cols |-> c, rows |-> r] : r \in SeqsUpTo(SampleRows(c), MaxRows)} : c \in 1 .. 2}

GridShapes == {s \in (1 .. MaxCells) \X (1 .. MaxCells) : s[1] * s[2] <= MaxCells}

\* the (sigma, learning_rate) pairs a caller passes: the defaults, their doubles, and
\* pairs with one of the two zero or negative
Params == {<<DefaultSigma, DefaultLearningRate>>, <<2 * DefaultSigma, 2 * DefaultLearningRate>>,
           <<0, DefaultLearningRate>>, <<-DefaultSigma, DefaultLearningRate>>,
           <<DefaultSigma, 0>>, <<DefaultSigma, -DefaultLearningRate>>}

\* random_seed: <<>> is None, <<s>> the integer s
Seeds == {<<>>} \cup {<<s>> : s \in 0 .. MaxSeed}

Init ==
    /\ NotSplitting
    /\ NotTransforming
    /\ pixel_mat \in Matrices
    /\ \E s \in GridShapes : x_neurons = s[1] /\ y_neurons = s[2]
    /\ num_passes \in -1 .. MaxPasses
    /\ \E p \in Params : sigma = p[1] /\ learning_rate = p[2]
    /\ random_seed \in Seeds
    /\ rand_gen = 0
    /\ weights = <<>>
    /\ x_mesh = <<>>
    /\ y_mesh = <<>>
    /\ num_iters = 0
    /\ iter_row = <<>>
    /\ t = 0
    /\ winning_coords = <<>>
    /\ decay_sigma = 0
    /\ decay_learning_rate = 0
    /\ pc = "start"
    /\ result = <<>>
    /\ visited = <<>>
    /\ n_updates = 0
    /\ search_read = <<>>
    /\ update_out = <<>>
    /\ call = <<>>
    /\ grid0 = <<>>

\* lines 110-124: the generator, the normalized random weights, the mesh, the schedule
CanInitialize == pc = "start"

\* an initialization that ignores the seed: np.random.RandomState()
Initialize_Unseeded ==
    /\ CanInitialize
    /\ \E s \in 0 .. 7 :
          /\ weights' = InitialWeights(s, x_neurons, y_neurons, NCols(pixel_mat))
          /\ rand_gen' = RandStateAfter(s, x_neurons * y_neurons * NCols(pixel_mat))
    /\ x_mesh' = meshgrid(x_neurons, y_neurons).x
    /\ y_mesh' = meshgrid(x_neurons, y_neurons).y
    /\ num_iters' = num_passes * NRows(pixel_mat)
    /\ iter_row' = ArangeMod(num_passes * NRows(pixel_mat), NRows(pixel_mat))
    /\ grid0' = weights'
    /\ t' = 0
    /\ pc' = "loop"
    /\ UNCHANGED <<arrays, masks, inputs, winning_coords, decay_sigma, decay_learning_rate, result,
                   visited, n_updates, search_read, update_out, call>>

Initialize ==
    /\ CanInitialize
    /\ \E s \in (IF random_seed = <<>> THEN 0 .. 7 ELSE {RandomState(random_seed[1])}) :
          /\ weights' = InitialWeights(s, x_neurons, y_neurons, NCols(pixel_mat))
          /\ rand_gen' = RandStateAfter(s, x_neurons * y_neurons * NCols(pixel_mat))
    /\ x_mesh' = meshgrid(x_neurons, y_neurons).x
    /\ y_mesh' = meshgrid(x_neurons, y_neurons).y
    /\ num_iters' = num_passes * NRows(pixel_mat)
    /\ iter_row' = ArangeMod(num_passes * NRows(pixel_mat), NRows(pixel_mat))
    /\ grid0' = weights'
    /\ t' = 0
    /\ pc' = "loop"
    /\ UNCHANGED <<arrays, masks, inputs, winning_coords, decay_sigma, decay_learning_rate, result,
                   visited, n_updates, search_read, update_out, call>>

\* lines 126-128: the next (t, row) of enumerate(iter_row) and the winner search
CanSearch == pc = "loop" /\ t < Len(iter_row)

\* a handler that ends the loop on an exception and keeps the weights reached so far
SearchRaises_KeepsPartial ==
    /\ CanSearch
    /\ \/ ~HasLabel(pixel_mat, iter_row[t + 1])
       \/ /\ HasLabel(pixel_mat, iter_row[t + 1])
          /\ winner(loc(pixel_mat, iter_row[t + 1]), weights).raised # ""
    /\ pc' = "raised"
    /\ result' = weights
    /\ UNCHANGED <<arrays, masks, inputs, setup, weights, t, winning_coords, decay_sigma,
                   decay_learning_rate, visited, n_updates, search_read,
                   update_out, call, grid0>>

\* line 128 raises: KeyError from .loc, or the exception of winner; the call ends and
\* its locals are gone
SearchRaises ==
    /\ CanSearch
    /\ \/ ~HasLabel(pixel_mat, iter_row[t + 1])
       \/ /\ HasLabel(pixel_mat, iter_row[t + 1])
          /\ winner(loc(pixel_mat, iter_row[t + 1]), weights).raised # ""
    /\ pc' = "raised"
    /\ UNCHANGED <<arrays, masks, inputs, setup, weights, t, winning_coords, decay_sigma,
                   decay_learning_rate, result, visited, n_updates, search_read,
                   update_out, call, grid0>>

Search ==
    /\ CanSearch
    /\ HasLabel(pixel_mat, iter_row[t + 1])
    /\ winner(loc(pixel_mat, iter_row[t + 1]), weights).raised = ""
    /\ winning_coords' = winner(loc(pixel_mat, iter_row[t + 1]), weights).value
    /\ weights' = winner(loc(pixel_mat, iter_row[t + 1]), weights).weights
    /\ pc' = "update"
    /\ visited' = Append(visited, iter_row[t + 1])
    /\ search_read' = weights
    /\ UNCHANGED <<arrays, masks, inputs, setup, t, decay_sigma, decay_learning_rate, result,
                   n_updates, update_out, call, grid0>>

\* lines 130-137: the decayed parameters and the update of the weights
CanUpdate == pc = "update"

\* an update whose result is computed and dropped: update(...) without the assignment
Update_Dropped ==
    /\ CanUpdate
    /\ decay_sigma' = decay_function(sigma, t, num_iters)
    /\ decay_learning_rate' = decay_function(learning_rate, t, num_iters)
    /\ update_out' = update(loc(pixel_mat, iter_row[t + 1]), weights, winning_coords,
                            decay_sigma', decay_learning_rate', x_mesh, y_mesh)
    /\ n_updates' = n_updates + 1
    /\ t' = t + 1
    /\ pc' = "loop"
    /\ UNCHANGED <<arrays, masks, inputs, setup, weights, winning_coords, result, visited, search_read,
                   call, grid0>>

\* an update that decays the parameters in place: sigma = decay_function(sigma, ...)
Update_InPlace ==
    /\ CanUpdate
    /\ sigma' = decay_function(sigma, t, num_iters)
    /\ learning_rate' = decay_function(learning_rate, t, num_iters)
    /\ decay_sigma' = sigma'
    /\ decay_learning_rate' = learning_rate'
    /\ weights' = update(loc(pixel_mat, iter_row[t + 1]), weights, winning_coords,
                         decay_sigma', decay_learning_rate', x_mesh, y_mesh)
    /\ update_out' = weights'
    /\ n_updates' = n_updates + 1
    /\ t' = t + 1
    /\ pc' = "loop"
    /\ UNCHANGED <<arrays, masks, pixel_mat, x_neurons, y_neurons, num_passes, random_seed, setup,
                   winning_coords, result, visited, search_read, call, grid0>>

Update ==
    /\ CanUpdate
    /\ decay_sigma' = decay_function(sigma, t, num_iters)
    /\ decay_learning_rate' = decay_function(learning_rate, t, num_iters)
    /\ weights' = update(loc(pixel_mat, iter_row[t + 1]), weights, winning_coords,
                         decay_sigma', decay_learning_rate', x_mesh, y_mesh)
    /\ update_out' = weights'
    /\ n_updates' = n_updates + 1
    /\ t' = t + 1
    /\ pc' = "loop"
    /\ UNCHANGED <<arrays, masks, inputs, setup, winning_coords, result, visited, search_read, call, grid0>>

\* line 139: the loop is exhausted and the weights are returned
\* a loop that stops after the first pass over the rows
CanReturn_OnePass == pc = "loop" /\ (t >= Len(iter_row) \/ t >= NRows(pixel_mat))

CanReturn == pc = "loop" /\ t >= Len(iter_row)

Return ==
    /\ CanReturn
    /\ result' = weights
    /\ pc' = "trained"
    /\ UNCHANGED <<arrays, masks, inputs, setup, weights, t, winning_coords, decay_sigma,
                   decay_learning_rate, visited, n_updates, search_read, update_out,
                   call, grid0>>

Next == Initialize \/ Search \/ Update \/ Return

Spec == Init /\ [][Next]_vars

\* Two calls of train_som with the same arguments, one after the other: when the first
\* has returned the caller keeps its result (and, for the comparison, its initial
\* weights) in call and calls again; the locals of the second call start afresh.
InitTwice ==
    /\ Init
    /\ NCols(pixel_mat) = 2
    /\ sigma = DefaultSigma
    /\ learning_rate = DefaultLearningRate

CallAgain ==
    /\ pc = "trained"
    /\ call = <<>>
    /\ call' = <<"train_som", result, grid0>>
    /\ pc' = "start"
    /\ rand_gen' = 0
    /\ weights' = <<>>
    /\ x_mesh' = <<>>
    /\ y_mesh' = <<>>
    /\ num_iters' = 0
    /\ iter_row' = <<>>
    /\ t' = 0
    /\ winning_coords' = <<>>
    /\ decay_sigma' = 0
    /\ decay_learning_rate' = 0
    /\ result' = <<>>
    /\ visited' = <<>>
    /\ n_updates' = 0
    /\ search_read' = <<>>
    /\ update_out' = <<>>
    /\ grid0' = <<>>
    /\ UNCHANGED <<arrays, masks, inputs>>

NextTwice == Initialize \/ Search \/ Update \/ Return \/ CallAgain

SpecTwice == InitTwice /\ [][NextTwice]_vars

----------------------------------------------------------------------------
(* cluster_som *)

RECURSIVE IntStr(_)
IntStr(n) ==
    IF n < 10 THEN <<"0", "1", "2", "3", "4", "5", "6", "7", "8", "9">>[n + 1]
    ELSE IntStr(n \div 10) \o IntStr(n % 10)

\* a conversion that keeps the first index only
CoordStr_FirstOnly(coords) == "(" \o IntStr(coords[1]) \o ")"

\* astype(str) on a coordinate tuple: "(x, y)"
CoordStr(coords) == "(" \o IntStr(coords[1]) \o ", " \o IntStr(coords[2]) \o ")"

\* an apply whose lambda searches with the first row whatever the row it is given
RECURSIVE ApplyWinner_FirstRow(_, _, _, _)
ApplyWinner_FirstRow(mat, w, i, acc) ==
    IF i > NRows(mat) THEN Returned(acc, w)
    ELSE LET r == winner(mat.rows[1], w)
         IN  IF r.raised # "" THEN Raised(r.raised, r.weights)
             ELSE ApplyWinner_FirstRow(mat, r.weights, i + 1, Append(acc, r.value))

\* pixel_mat.apply(lambda row: winner(row.values, weights), axis=1), row after row: the
\* outcomes of the winner calls so far and the weights as the last call left them. The
\* first call that raises ends the apply.
RECURSIVE ApplyWinner(_, _, _, _)
ApplyWinner(mat, w, i, acc) ==
    IF i > NRows(mat) THEN Returned(acc, w)
    ELSE LET r == winner(mat.rows[i], w)
         IN  IF r.raised # "" THEN Raised(r.raised, r.weights)
             ELSE ApplyWinner(mat, r.weights, i + 1, Append(acc, r.value))

\* the distinct values in order of last appearance
RECURSIVE unique_LastSeen(_)
unique_LastSeen(s) ==
    IF s = <<>> THEN <<>>
    ELSE LET u == unique_LastSeen(Tail(s))
         IN  IF Head(s) \in Range(u) THEN u ELSE <<Head(s)>> \o u

\* Series.unique(): the distinct values in order of first appearance
RECURSIVE unique(_)
unique(s) ==
    IF s = <<>> THEN <<>>
    ELSE LET u == unique(SubSeq(s, 1, Len(s) - 1))
         IN  IF s[Len(s)] \in Range(u) THEN u ELSE Append(u, s[Len(s)])

\* Series.replace(to_replace=list, value=list): an element equal to to_replace[i]
\* becomes value[i]; any other element stays
replace(s, to_replace, value) ==
    [i \in DOMAIN s |->
        IF s[i] \in Range(to_replace)
        THEN value[CHOOSE j \in DOMAIN to_replace : to_replace[j] = s[i]]
        ELSE s[i]]

\* list(range(n))
ListRange(n) == [i \in 1 .. n |-> i - 1]

cluster_som(mat, w) ==
    LET applied == ApplyWinner(mat, w, 1, <<>>)
    IN  IF applied.raised # "" THEN applied
        ELSE LET cluster_coords == [i \in DOMAIN applied.value |-> CoordStr(applied.value[i])]
                 unique_cluster_coords == unique(cluster_coords)
                 coord_to_label == ListRange(Len(unique_cluster_coords))
             IN  Returned(replace(cluster_coords, unique_cluster_coords, coord_to_label),
                          applied.weights)

----------------------------------------------------------------------------
(* Calls of winner and cluster_som on a given weight matrix *)

Prototypes(c) == IF c = 1 THEN {<<One>>}
                 ELSE {<<One, 0>>, <<0, One>>, <<-707, -707>>}

Grids ==
    UNION {[0 .. s[1] - 1 -> [0 .. s[2] - 1 -> Prototypes(c)]] : s \in GridShapes, c \in 1 .. 2}

AssignRows(c) == IF c = 3 THEN {<<One, 0, 0>>}
                 ELSE IF c = 2 THEN SampleRows(c) \cup {<<-One, -One>>}
                 ELSE {<<0>>}

\* the non-empty sample matrices, of one to three channels and up to MaxRows + 1 rows
AssignMatrices ==
    UNION {{[cols |-> c, rows |-> r] : r \in SeqsUpTo(AssignRows(c), MaxRows + 1) \ {<<>>}} :
           c \in 1 .. 3}

InitAssign ==
    /\ NotSplitting
    /\ NotTransforming
    /\ weights \in Grids
    /\ grid0 = weights
    /\ pixel_mat \in AssignMatrices
    /\ x_neurons = Shape(weights)[1]
    /\ y_neurons = Shape(weights)[2]
    /\ num_passes = 0
    /\ sigma = 0
    /\ learning_rate = 0
    /\ random_seed = <<>>
    /\ rand_gen = 0
    /\ x_mesh = <<>>
    /\ y_mesh = <<>>
    /\ num_iters = 0
    /\ iter_row = <<>>
    /\ t = 0
    /\ winning_coords = <<>>
    /\ decay_sigma = 0
    /\ decay_learning_rate = 0
    /\ pc = "assign"
    /\ result = Returned(<<>>, weights)
    /\ visited = <<>>
    /\ n_updates = 0
    /\ search_read = <<>>
    /\ update_out = <<>>
    /\ call = <<"none", 0>>

\* a caller runs winner on the first row of the matrix
CallWinner ==
    /\ pc = "assign"
    /\ call' = <<"winner", 1>>
    /\ result' = winner(pixel_mat.rows[1], weights)
    /\ weights' = result'.weights
    /\ UNCHANGED <<arrays, masks, inputs, setup, t, winning_coords, decay_sigma, decay_learning_rate, pc,
                   visited, n_updates, search_read, update_out, grid0>>

\* a caller runs cluster_som on the matrix
CallClusterSom ==
    /\ pc = "assign"
    /\ call' = <<"cluster_som", 0>>
    /\ result' = cluster_som(pixel_mat, weights)
    /\ weights' = result'.weights
    /\ UNCHANGED <<arrays, masks, inputs, setup, t, winning_coords, decay_sigma, decay_learning_rate, pc,
                   visited, n_updates, search_read, update_out, grid0>>

NextAssign == CallWinner \/ CallClusterSom

SpecAssign == InitAssign /\ [][NextAssign]_vars

----------------------------------------------------------------------------
(* train_som followed by cluster_som on the same matrix *)

\* the variables of train_som before the call starts, for the specifications of
\* direct calls of the other functions
NotTraining ==
    /\ random_seed = <<>>
    /\ rand_gen = 0
    /\ x_mesh = <<>>
    /\ y_mesh = <<>>
    /\ iter_row = <<>>
    /\ winning_coords = <<>>
    /\ decay_sigma = 0
    /\ decay_learning_rate = 0
    /\ n_updates = 0
    /\ search_read = <<>>
    /\ update_out = <<>>

\* the rows of the end-to-end scenario: [[1, 0], [0, 1], [1, 0], [0, 1]]
ScenarioRows == <<<<One, 0>>, <<0, One>>, <<One, 0>>, <<0, One>>>>

\* two-channel frames: up to MaxRows rows on the default index, two rows on an index
\* with a gap (labels 0 and 2, as rows left by a filter), and the scenario's frame
RunMatrices ==
    {[cols |-> 2, rows |-> r, index |-> [i \in 1 .. Len(r) |-> i - 1]] :
        r \in SeqsUpTo(SampleRows(2), MaxRows) \cup {ScenarioRows}}
    \cup {[cols |-> 2, rows |-> r, index |-> <<0, 2>>] : r \in [1 .. 2 -> SampleRows(2)]}

\* grid dimensions as passed, 0 included
RunShapes == {s \in (0 .. MaxCells) \X (0 .. MaxCells) : s[1] * s[2] <= MaxCells}

InitRun ==
    /\ NotSplitting
    /\ NotTransforming
    /\ pixel_mat \in RunMatrices
    /\ \E s \in RunShapes : x_neurons = s[1] /\ y_neurons = s[2]
    /\ num_passes \in 0 .. MaxPasses
    /\ sigma = DefaultSigma
    /\ learning_rate = DefaultLearningRate
    /\ random_seed \in Seeds
    /\ NotTraining
    /\ weights = <<>>
    /\ num_iters = 0
    /\ t = 0
    /\ pc = "start"
    /\ result = <<>>
    /\ visited = <<>>
    /\ call = <<>>
    /\ grid0 = <<>>

\* the caller passes the weights train_som returned to cluster_som, with the matrix
\* they were trained on; call keeps the outcome
Assign ==
    /\ pc = "trained"
    /\ NRows(pixel_mat) >= 1
    /\ call' = <<"cluster_som", cluster_som(pixel_mat, result)>>
    /\ pc' = IF call'[2].raised = "" THEN "assigned" ELSE "assign_raised"
    /\ UNCHANGED <<arrays, masks, inputs, setup, weights, t, winning_coords, decay_sigma,
                   decay_learning_rate, result, visited, n_updates, search_read,
                   update_out, grid0>>

NextRun == Initialize \/ Search \/ SearchRaises \/ Update \/ Return \/ Assign

SpecRun == InitRun /\ [][NextRun]_vars

----------------------------------------------------------------------------
(* cluster_som with the winner searches of its rows run in any order *)

OrderGrids ==
    UNION {[0 .. s[1] - 1 -> [0 .. s[2] - 1 -> SampleRows(2)]] : s \in GridShapes}

\* a row that is a prototype, and a row at the same distance from the two prototypes
OrderRows == {<<One, 0>>, <<-One, -One>>}

OrderMatrices ==
    {[cols |-> 2, rows |-> r] : r \in SeqsUpTo(OrderRows, MaxRows + 1) \ {<<>>}}

\* winning_coords maps the rows searched so far to the coordinates found; t is the row
\* searched last
InitAnyOrder ==
    /\ NotSplitting
    /\ NotTransforming
    /\ weights \in OrderGrids
    /\ grid0 = weights
    /\ pixel_mat \in OrderMatrices
    /\ x_neurons = Shape(weights)[1]
    /\ y_neurons = Shape(weights)[2]
    /\ NotTraining
    /\ num_passes = 0
    /\ sigma = 0
    /\ learning_rate = 0
    /\ num_iters = 0
    /\ t = 0
    /\ pc = "apply"
    /\ result = Returned(<<>>, weights)
    /\ visited = <<>>
    /\ call = <<"cluster_som", 0>>

\* line 158 for one row not searched yet, whichever it is
SearchRow ==
    /\ pc = "apply"
    /\ \E i \in (1 .. NRows(pixel_mat)) \ DOMAIN winning_coords :
          LET r == winner(pixel_mat.rows[i], weights)
          IN  /\ r.raised = ""
              /\ winning_coords' = [j \in DOMAIN winning_coords \cup {i} |->
                                        IF j = i THEN r.value ELSE winning_coords[j]]
              /\ weights' = r.weights
              /\ t' = i
    /\ UNCHANGED <<arrays, masks, inputs, rand_gen, x_mesh, y_mesh, num_iters, iter_row, decay_sigma,
                   decay_learning_rate, pc, result, visited, n_updates, search_read,
                   update_out, call, grid0>>

\* lines 158-164 once every row has its coordinates: the strings, the distinct ones in
\* row order, and the labels
LabelRows ==
    /\ pc = "apply"
    /\ DOMAIN winning_coords = 1 .. NRows(pixel_mat)
    /\ LET cluster_coords == [i \in DOMAIN winning_coords |-> CoordStr(winning_coords[i])]
           unique_cluster_coords == unique(cluster_coords)
           coord_to_label == ListRange(Len(unique_cluster_coords))
       IN  result' = Returned(replace(cluster_coords, unique_cluster_coords, coord_to_label),
                              weights)
    /\ pc' = "labelled"
    /\ UNCHANGED <<arrays, masks, inputs, setup, weights, t, winning_coords, decay_sigma,
                   decay_learning_rate, visited, n_updates, search_read, update_out,
                   call, grid0>>

NextAnyOrder == SearchRow \/ LabelRows

SpecAnyOrder == InitAnyOrder /\ [][NextAnyOrder]_vars

----------------------------------------------------------------------------
(* Calls of decay_function *)

\* the values of param a caller passes: negative, zero, tiny and usual ones
DecayParams == {-DefaultSigma, -DefaultLearningRate, 0, 1, DefaultLearningRate,
                DefaultSigma, 2 * DefaultSigma}

\* sigma holds param; visited records each call made as <<t, value returned>>
InitDecay ==
    /\ NotSplitting
    /\ NotTransforming
    /\ sigma \in DecayParams
    /\ num_iters \in 0 .. MaxIters
    /\ NotTraining
    /\ pixel_mat = [cols |-> 1, rows |-> <<>>]
    /\ x_neurons = 1
    /\ y_neurons = 1
    /\ num_passes = 0
    /\ learning_rate = 0
    /\ weights = <<>>
    /\ grid0 = <<>>
    /\ t = 0
    /\ pc = "decay"
    /\ result = 0
    /\ visited = <<>>
    /\ call = <<"none", 0>>

\* a caller evaluates decay_function(param, t, num_iters) for some t >= 0
CallDecay ==
    /\ pc = "decay"
    /\ Len(visited) < 2
    /\ \E tt \in 0 .. MaxIters :
          /\ t' = tt
          /\ call' = <<"decay_function", tt>>
          /\ result' = decay_function(sigma, tt, num_iters)
          /\ visited' = Append(visited, <<tt, result'>>)
    /\ UNCHANGED <<arrays, masks, inputs, setup, weights, winning_coords, decay_sigma, decay_learning_rate,
                   pc, n_updates, search_read, update_out, grid0>>

NextDecay == CallDecay

SpecDecay == InitDecay /\ [][NextDecay]_vars

----------------------------------------------------------------------------
(* Calls of update *)

\* the (sigma, learning_rate) pairs update is called with: those of train_som, a decayed
\* pair and a learning rate above 1
UpdateParams == Params \cup {<<DefaultSigma \div 2, DefaultLearningRate \div 2>>,
                             <<DefaultSigma, 4 * DefaultLearningRate>>}

\* the sample is the one row of pixel_mat; winning_coords is any neuron of the grid
InitUpdate ==
    /\ NotSplitting
    /\ NotTransforming
    /\ weights \in Grids
    /\ grid0 = weights
    /\ pixel_mat \in {[cols |-> Shape(weights)[3], rows |-> <<r>>] :
                         r \in AssignRows(Shape(weights)[3])}
    /\ x_neurons = Shape(weights)[1]
    /\ y_neurons = Shape(weights)[2]
    /\ winning_coords \in (0 .. x_neurons - 1) \X (0 .. y_neurons - 1)
    /\ \E p \in UpdateParams : sigma = p[1] /\ learning_rate = p[2]
    /\ x_mesh = meshgrid(x_neurons, y_neurons).x
    /\ y_mesh = meshgrid(x_neurons, y_neurons).y
    /\ num_passes = 0
    /\ random_seed = <<>>
    /\ rand_gen = 0
    /\ num_iters = 0
    /\ iter_row = <<>>
    /\ t = 0
    /\ decay_sigma = 0
    /\ decay_learning_rate = 0
    /\ pc = "update_call"
    /\ result = <<>>
    /\ visited = <<>>
    /\ n_updates = 0
    /\ search_read = <<>>
    /\ update_out = <<>>
    /\ call = <<"none", 0>>

\* a caller runs update once; the array it returns is a new one, the argument stays
CallUpdate ==
    /\ pc = "update_call"
    /\ call[1] = "none"
    /\ call' = <<"update", 0>>
    /\ update_out' = update(loc(pixel_mat, 0), weights, winning_coords, sigma,
                            learning_rate, x_mesh, y_mesh)
    /\ result' = update_out'
    /\ n_updates' = n_updates + 1
    /\ UNCHANGED <<arrays, masks, inputs, setup, weights, t, winning_coords, decay_sigma,
                   decay_learning_rate, pc, visited, search_read, grid0>>

NextUpdate == CallUpdate

SpecUpdate == InitUpdate /\ [][NextUpdate]_vars

----------------------------------------------------------------------------
(* split_large_nuclei of ark/utils/segmentation_utils.py *)

\* A label mask is a sequence of labels, one per pixel of the image in row-major
\* order; 0 is the background.
None == -1

\* regionprops 'coords' of a label: the pixels that carry it
Coords(mask, label) == {p \in DOMAIN mask : mask[p] = label}

\* the labels regionprops_table reports: those of the mask other than 0
RegionLabels(mask) == Range(mask) \ {0}

\* np.unique(..., return_counts=True) over the pixels of the cell, the background
\* dropped: the nuclear ids in ascending order and the count of each; np.argmax takes
\* the first id of greatest count
find_nuclear_mask_id(nuc_mask, cell_coords) ==
    LET ids == {nuc_mask[p] : p \in cell_coords} \ {0}
        counts == [i \in ids |-> Cardinality({p \in cell_coords : nuc_mask[p] = i})]
    IN  IF ids = {} THEN None
        ELSE CHOOSE i \in ids :
                \A j \in ids : counts[i] > counts[j] \/ (counts[i] = counts[j] /\ i <= j)

\* np.max of a mask
MaxLabelOf(mask) == CHOOSE m \in Range(mask) : \A n \in Range(mask) : n <= m

Labels == 0 .. 2

Masks == [1 .. MaxPixels -> Labels]

\* the sequences without repetition over a set of labels
CellIdSeqs(S) ==
    {q \in UNION {[1 .. k -> S] : k \in 0 .. Cardinality(S)} :
        \A i, j \in DOMAIN q : i # j => q[i] # q[j]}

\* the SOM variables while split_large_nuclei runs
NotClustering ==
    /\ NotTraining
    /\ pixel_mat = [cols |-> 1, rows |-> <<>>]
    /\ x_neurons = 1
    /\ y_neurons = 1
    /\ num_passes = 0
    /\ sigma = 0
    /\ learning_rate = 0
    /\ weights = <<>>
    /\ grid0 = <<>>
    /\ num_iters = 0
    /\ t = 0
    /\ visited = <<>>
    /\ call = <<"split_large_nuclei", 0>>

\* cell_ids holds cells of the cell mask, each once, in any order
InitSplit ==
    /\ NotClustering
    /\ NotTransforming
    /\ cell_segmentation_mask \in Masks
    /\ nuc_segmentation_mask \in Masks
    /\ cell_ids \in CellIdSeqs(RegionLabels(cell_segmentation_mask))
    /\ nuc_mask_modified = <<>>
    /\ max_nuc_id = 0
    /\ cell_iter = 0
    /\ pc = "split_start"
    /\ result = <<>>

\* lines 54-58: the copy of the nuclear mask and its greatest label
StartSplit ==
    /\ pc = "split_start"
    /\ nuc_mask_modified' = nuc_segmentation_mask
    /\ max_nuc_id' = MaxLabelOf(nuc_segmentation_mask)
    /\ cell_iter' = 1
    /\ pc' = "split_loop"
    /\ UNCHANGED <<arrays, inputs, setup, weights, t, winning_coords, decay_sigma,
                   decay_learning_rate, result, visited, n_updates, search_read,
                   update_out, call, grid0, cell_segmentation_mask,
                   nuc_segmentation_mask, cell_ids>>

\* the nucleus of greatest overlap with the cell has pixels outside of the cell
MustSplit(cell) ==
    LET coords == Coords(cell_segmentation_mask, cell)
        nuc_id == find_nuclear_mask_id(nuc_segmentation_mask, coords)
        nuc_count == Cardinality({p \in coords : nuc_segmentation_mask[p] = nuc_id})
    IN  /\ nuc_id # None
        /\ nuc_count # Cardinality(Coords(nuc_segmentation_mask, nuc_id))

\* the pixels relabelled for the cell: those of the cell and of its nucleus
new_nuc_mask(cell) ==
    Coords(cell_segmentation_mask, cell) \cap
        Coords(nuc_segmentation_mask,
               find_nuclear_mask_id(nuc_segmentation_mask, Coords(cell_segmentation_mask, cell)))

\* an iteration that relabels without a new label: max_nuc_id is never incremented
SplitCell_SameLabel ==
    /\ pc = "split_loop"
    /\ cell_iter <= Len(cell_ids)
    /\ LET cell == cell_ids[cell_iter]
       IN  IF MustSplit(cell)
           THEN /\ max_nuc_id' = max_nuc_id
                /\ nuc_mask_modified' = [p \in DOMAIN nuc_mask_modified |->
                                            IF p \in new_nuc_mask(cell) THEN max_nuc_id'
                                            ELSE nuc_mask_modified[p]]
           ELSE UNCHANGED <<max_nuc_id, nuc_mask_modified>>
    /\ cell_iter' = cell_iter + 1
    /\ UNCHANGED <<arrays, inputs, setup, weights, t, winning_coords, decay_sigma,
                   decay_learning_rate, pc, result, visited, n_updates, search_read,
                   update_out, call, grid0, cell_segmentation_mask,
                   nuc_segmentation_mask, cell_ids>>

\* an iteration that relabels the nucleus of the cell whether or not it leaves the cell
SplitCell_Always ==
    /\ pc = "split_loop"
    /\ cell_iter <= Len(cell_ids)
    /\ LET cell == cell_ids[cell_iter]
       IN  IF find_nuclear_mask_id(nuc_segmentation_mask,
                                   Coords(cell_segmentation_mask, cell)) # None
           THEN /\ max_nuc_id' = max_nuc_id + 1
                /\ nuc_mask_modified' = [p \in DOMAIN nuc_mask_modified |->
                                            IF p \in new_nuc_mask(cell) THEN max_nuc_id'
                                            ELSE nuc_mask_modified[p]]
           ELSE UNCHANGED <<max_nuc_id, nuc_mask_modified>>
    /\ cell_iter' = cell_iter + 1
    /\ UNCHANGED <<arrays, inputs, setup, weights, t, winning_coords, decay_sigma,
                   decay_learning_rate, pc, result, visited, n_updates, search_read,
                   update_out, call, grid0, cell_segmentation_mask,
                   nuc_segmentation_mask, cell_ids>>

\* lines 60-80: one iteration of the loop over cell_ids
SplitCell ==
    /\ pc = "split_loop"
    /\ cell_iter <= Len(cell_ids)
    /\ LET cell == cell_ids[cell_iter]
       IN  IF MustSplit(cell)
           THEN /\ max_nuc_id' = max_nuc_id + 1
                /\ nuc_mask_modified' = [p \in DOMAIN nuc_mask_modified |->
                                            IF p \in new_nuc_mask(cell) THEN max_nuc_id'
                                            ELSE nuc_mask_modified[p]]
           ELSE UNCHANGED <<max_nuc_id, nuc_mask_modified>>
    /\ cell_iter' = cell_iter + 1
    /\ UNCHANGED <<arrays, inputs, setup, weights, t, winning_coords, decay_sigma,
                   decay_learning_rate, pc, result, visited, n_updates, search_read,
                   update_out, call, grid0, cell_segmentation_mask,
                   nuc_segmentation_mask, cell_ids>>

\* line 82
ReturnSplit ==
    /\ pc = "split_loop"
    /\ cell_iter > Len(cell_ids)
    /\ result' = nuc_mask_modified
    /\ pc' = "split_done"
    /\ UNCHANGED <<arrays, masks, inputs, setup, weights, t, winning_coords, decay_sigma,
                   decay_learning_rate, visited, n_updates, search_read,
                   update_out, call, grid0>>

NextSplit == StartSplit \/ SplitCell \/ ReturnSplit

SpecSplit == InitSplit /\ [][NextSplit]_vars

----------------------------------------------------------------------------
(* transform_expression_matrix *)

\* line 100
valid_transforms == {"size_norm", "arcsinh"}

\* line 112: the 0th feature, the cell size, is skipped
channel_start == 1

\* the default of transform_kwargs.get('linear_factor', 100)
DefaultLinearFactor == 100

\* np.where(features == 'label')[0] is not empty
HasLabelFeature(features) == \E i \in DOMAIN features : features[i] = "label"

\* line 115: the 0-based position of the first feature named 'label'
channel_end(features) ==
    (CHOOSE i \in DOMAIN features :
        /\ features[i] = "label"
        /\ \A j \in 1 .. i - 1 : features[j] # "label") - 1

\* the 0-based feature positions of the slice channel_start:channel_end
ChannelSlice(features) ==
    {f \in 0 .. Len(features) - 1 : f >= channel_start /\ f < channel_end(features)}

\* what an entry that np.divide never writes can hold
Garbage == {0, One, NaN}

\* the entries of the channel slice where cell_size_large > 0 is false
Holes(data) ==
    UNION {UNION {{<<k, c, f>> : f \in {f \in DOMAIN data.values[k][c] :
                                          /\ (f - 1) \in ChannelSlice(data.features)
                                          /\ ~(data.values[k][c][1] > 0)}} :
                  c \in DOMAIN data.values[k]} :
           k \in DOMAIN data.values}

\* the normalization that starts its slice at the cell-size column
size_norm_FromZero(data, g) ==
    [k \in DOMAIN data.values |->
        [c \in DOMAIN data.values[k] |->
            [f \in DOMAIN data.values[k][c] |->
                IF f - 1 < channel_end(data.features)
                THEN IF data.values[k][c][1] > 0
                     THEN FDiv(data.values[k][c][f], data.values[k][c][1])
                     ELSE IF <<k, c, f>> \in DOMAIN g THEN g[<<k, c, f>>]
                          ELSE data.values[k][c][f]
                ELSE data.values[k][c][f]]]]

\* lines 117-128: the channel slice divided by the cell size where the size is
\* positive; np.divide gets no out array, so the other entries of its result are
\* never written and hold g
size_norm(data, g) ==
    [k \in DOMAIN data.values |->
        [c \in DOMAIN data.values[k] |->
            [f \in DOMAIN data.values[k][c] |->
                IF (f - 1) \in ChannelSlice(data.features)
                THEN IF data.values[k][c][1] > 0
                     THEN FDiv(data.values[k][c][f], data.values[k][c][1])
                     ELSE g[<<k, c, f>>]
                ELSE data.values[k][c][f]]]]

\* the greatest k with 2^k <= v / One, for v >= One
RECURSIVE Log2Floor(_)
Log2Floor(v) == IF v < 2 * One THEN 0 ELSE 1 + Log2Floor(v \div 2)

\* the natural logarithm of v >= One: v = m * 2^k with 1 <= m < 2 and
\* ln m = 2 artanh((m - 1) / (m + 1)), by its series to the seventh power
FLn(v) ==
    LET k  == Log2Floor(v)
        m  == RoundDiv(v, 2 ^ k)
        z  == RoundDiv((m - One) * One * 10, m + One)
        z2 == RoundDiv(z * z, One * 10)
        z3 == RoundDiv(z2 * z, One * 10)
        z5 == RoundDiv(z3 * z2, One * 10)
        z7 == RoundDiv(z5 * z2, One * 10)
    IN  RoundDiv(k * 693147, One) + RoundDiv(2 * (z + z3 \div 3 + z5 \div 5 + z7 \div 7), 10)

\* np.arcsinh: ln(y + sqrt(y^2 + 1)), which is ln(2 y) to the last digit kept once
\* y reaches 30; odd in y; within one unit of the last digit kept
RECURSIVE arcsinh(_)
arcsinh(y) ==
    IF y = NaN THEN NaN
    ELSE IF y < 0 THEN -arcsinh(-y)
    ELSE IF y >= 30 * One THEN FLn(2 * y)
    ELSE LET n == y * y + One * One
             r == SqrtSearch(n, 0, 46340)
         IN  FLn(y + (IF n - r * r > r THEN r + 1 ELSE r))

\* line 131
linear_factor(kwargs) ==
    IF "linear_factor" \in DOMAIN kwargs THEN kwargs.linear_factor ELSE DefaultLinearFactor

\* lines 130-138: the channel slice scaled by linear_factor, then its arcsinh
arcsinh_transform(data, kwargs) ==
    [k \in DOMAIN data.values |->
        [c \in DOMAIN data.values[k] |->
            [f \in DOMAIN data.values[k][c] |->
                IF (f - 1) \in ChannelSlice(data.features)
                THEN arcsinh(data.values[k][c][f] * linear_factor(kwargs))
                ELSE data.values[k][c][f]]]]

FeatureLists ==
    {<<"cell_size", "chan0", "label">>,
     <<"cell_size", "chan0", "chan1", "label", "area">>,
     <<"cell_size", "label", "area">>,
     <<"cell_size", "chan0">>,
     <<"label", "cell_size">>}

\* the values that the feature of a name takes for the cell of number c
FeatureValues(name, c) ==
    CASE name = "cell_size" -> {0, One, 2 * One}
      [] name = "label"     -> {c * One}
      [] name = "area"      -> {2 * One}
      [] OTHER              -> {0, 4 * One}

DataRows(features, c) ==
    {r \in [1 .. Len(features) ->
               UNION {FeatureValues(features[f], c) : f \in 1 .. Len(features)}] :
        \A f \in 1 .. Len(features) : r[f] \in FeatureValues(features[f], c)}

\* the arrays of one compartment, n cells and the given features
CellData(features, n) ==
    {[features |-> features, values |-> <<q>>] :
        q \in {q \in [1 .. n -> UNION {DataRows(features, c) : c \in 1 .. n}] :
                  \A c \in 1 .. n : q[c] \in DataRows(features, c)}}

\* transform_kwargs: None, an empty dict, or a dict that sets linear_factor
Kwargs == {[is_none |-> TRUE], [is_none |-> FALSE],
           [is_none |-> FALSE, linear_factor |-> 1]}

InitTransform ==
    /\ NotTraining
    /\ NotSplitting
    /\ pixel_mat = [cols |-> 1, rows |-> <<>>]
    /\ x_neurons = 1
    /\ y_neurons = 1
    /\ num_passes = 0
    /\ sigma = 0
    /\ learning_rate = 0
    /\ weights = <<>>
    /\ grid0 = <<>>
    /\ num_iters = 0
    /\ t = 0
    /\ visited = <<>>
    /\ call = <<"transform_expression_matrix", "">>
    /\ cell_data \in UNION {CellData(fs, n) : fs \in FeatureLists, n \in 0 .. MaxDataCells}
    /\ transform \in {"size_norm", "arcsinh", "log"}
    /\ transform_kwargs \in Kwargs
    /\ cell_data_transformed = <<>>
    /\ pc = "transform_start"
    /\ result = <<>>

\* the call leaves by an exception: nothing is returned
TransformRaises(exception) ==
    /\ pc' = "transform_raised"
    /\ call' = <<"transform_expression_matrix", exception>>
    /\ UNCHANGED <<cell_data_transformed, result>>

\* line 140: the copy, transformed, is returned
TransformReturns(values) ==
    /\ cell_data_transformed' = [features |-> cell_data.features, values |-> values]
    /\ result' = cell_data_transformed'
    /\ pc' = "transform_done"
    /\ UNCHANGED call

\* lines 100-140; the input is deep-copied on line 109 and only the copy is written
CallTransform ==
    /\ pc = "transform_start"
    /\ IF transform \notin valid_transforms
       THEN TransformRaises("ValueError")
       ELSE IF ~HasLabelFeature(cell_data.features)
       THEN TransformRaises("IndexError")
       ELSE IF transform = "size_norm"
       THEN IF channel_end(cell_data.features) - channel_start < 0
            THEN TransformRaises("ValueError")
            ELSE \E g \in [Holes(cell_data) -> Garbage] :
                    TransformReturns(size_norm(cell_data, g))
       ELSE TransformReturns(arcsinh_transform(cell_data, transform_kwargs))
    /\ UNCHANGED <<cell_data, transform, transform_kwargs>>
    /\ UNCHANGED <<masks, inputs, setup, weights, t, winning_coords, decay_sigma,
                   decay_learning_rate, visited, n_updates, search_read,
                   update_out, grid0>>

NextTransform == CallTransform

SpecTransform == InitTransform /\ [][NextTransform]_vars

----------------------------------------------------------------------------
(* Properties of train_som *)

\* T = num_passes * N
TotalSteps == num_passes * NRows(pixel_mat)

Count(s, v) == Cardinality({i \in DOMAIN s : s[i] = v})

Progress ==
    CASE pc = "start" -> 0
      [] pc = "loop" -> 1 + 2 * t
      [] pc = "update" -> 2 + 2 * t
      [] OTHER -> 2 + 2 * t

C2_StepsDone ==
    TotalSteps >= 0 =>
        /\ t <= TotalSteps
        /\ n_updates = t
        /\ Len(visited) = (IF pc = "update" THEN t + 1 ELSE t)
        /\ pc = "trained" => (n_updates = TotalSteps /\ result = weights)
        /\ (pc = "trained" /\ TotalSteps >= 1) => result = update_out
        /\ pc # "trained" <=> (CanInitialize \/ CanSearch \/ CanUpdate \/ CanReturn)

\* C2: there is no early stopping: training performs exactly T = num_passes * N
\* search and update steps and then returns the weights as the T-th update left them;
\* no update follows. It terminates: until it has returned a step is always possible,
\* and every step moves it forward in a run of 2 * T + 2 steps.
C2_ExactlyTSteps ==
    /\ [](C2_StepsDone)
    /\ [][Progress' = Progress + 1 /\ (CanReturn => pc' = "trained")]_vars

C2_Witness == pc = "trained" /\ n_updates = 4 /\ result # grid0

\* C3: the steps are strictly sequential: a search reads the initial weights if no
\* update has run and otherwise exactly the weights the latest update produced, and
\* between an update and the next search the weights are that update's output.
C3_Sequential ==
    /\ pc = "update" => search_read = (IF n_updates = 0 THEN grid0 ELSE update_out)
    /\ (pc = "loop" /\ n_updates >= 1) => weights = update_out
    /\ pc = "update" => weights = search_read

C3_Witness == pc = "update" /\ n_updates >= 1 /\ search_read # grid0 /\ search_read = update_out

\* C4 (as claimed): train_som with num_passes <= 0 or with an empty sample matrix
\* fails before any step and never returns weights that received no training step.
C4_FailsFast == pc = "trained" => (num_passes >= 1 /\ NRows(pixel_mat) >= 1 /\ n_updates >= 1)

\* C5 (as claimed): with sigma <= 0 or learning_rate <= 0 the call fails before the
\* first training step, so a step only ever executes with both of them positive.
C5_RejectsNonPositive == n_updates >= 1 => (sigma > 0 /\ learning_rate > 0)

\* the values update received at the latest step, whose index is t - 1
C12_DecayedAtStep ==
    (pc \in {"loop", "trained"} /\ n_updates >= 1) =>
        /\ decay_sigma = decay_function(sigma, t - 1, TotalSteps)
        /\ decay_learning_rate = decay_function(learning_rate, t - 1, TotalSteps)
        /\ update_out = update(loc(pixel_mat, (t - 1) % NRows(pixel_mat)), search_read,
                               winning_coords, decay_function(sigma, t - 1, TotalSteps),
                               decay_function(learning_rate, t - 1, TotalSteps),
                               x_mesh, y_mesh)

\* C12: at step t the sigma and the learning rate passed to update are
\* decay_function(sigma, t, T) and decay_function(learning_rate, t, T) of the values the
\* caller supplied, and no step changes sigma or learning_rate themselves.
C12_FreshDecay ==
    /\ [](C12_DecayedAtStep)
    /\ [][sigma' = sigma /\ learning_rate' = learning_rate]_vars

C12_Witness ==
    /\ pc = "loop"
    /\ n_updates = 3
    /\ sigma = DefaultSigma
    /\ learning_rate = DefaultLearningRate
    /\ TotalSteps = 4
    /\ decay_sigma = 500
    /\ decay_learning_rate = 250

\* the second of two calls has returned
SecondReturned == pc = "trained" /\ call # <<>>

\* C14 (as claimed): two train_som calls with identical sample matrix, grid dimensions,
\* num_passes, sigma, learning_rate and seed return identical weights.
C14_SameSeedSameGrid == SecondReturned => result = call[2]

C14_SameResult ==
    SecondReturned =>
        /\ random_seed # <<>> => (grid0 = call[3] /\ result = call[2])
        /\ grid0 = call[3] => result = call[2]

\* C14 (amended): two train_som calls with identical arguments and the same integer
\* seed (not None) return identical weights; with any seed, two calls that start from
\* the same initial weights return identical weights, and the random generator is
\* not advanced after the initialization.
C14_Deterministic ==
    /\ [](C14_SameResult)
    /\ [][(pc # "start" /\ pc' # "start") => rand_gen' = rand_gen]_vars

C14_Witness ==
    /\ SecondReturned
    /\ random_seed = <<1>>
    /\ n_updates = 4
    /\ result = call[2]
    /\ result # grid0

C15_NothingPartial ==
    /\ pc = "raised" => (result = <<>> /\ call = <<>> /\ n_updates < TotalSteps)
    /\ pc \in {"trained", "assigned", "assign_raised"} =>
          (n_updates = TotalSteps /\ result = weights)
    /\ pc = "assign_raised" => (call[2].value = <<>> /\ call[2].weights = result)
    /\ pc = "assigned" => DOMAIN call[2].value = 1 .. NRows(pixel_mat)

\* C15: a train_som or cluster_som call that fails at some step returns nothing: the
\* caller holds no weights and no labels of it, the run does not go on after the
\* failure, and weights that are returned have received all T steps.
C15_FailsAtomically ==
    /\ [](C15_NothingPartial)
    /\ [][pc \notin {"raised", "assign_raised"}]_vars

C15_Witness ==
    /\ pc = "raised"
    /\ n_updates = 1
    /\ weights # grid0
    /\ result = <<>>
    /\ pixel_mat.index = <<0, 2>>

\* a component that is nan or an infinity
Undefined(v) == v \in {NaN, NegInf, PosInf}

HasUndefined(w) == \E c \in Cells(w) : \E k \in DOMAIN w[c[1]][c[2]] : Undefined(w[c[1]][c[2]][k])

\* C16 (as claimed): a zero-norm prototype at initialization or a zero kernel
\* denominator 2 * pi * sigma^2 at some step makes train_som fail; the weights it
\* returns after its steps hold no nan and no infinity.
C16_DegeneracySurfaced == (pc = "trained" /\ n_updates >= 1) => ~HasUndefined(result)

\* w is an array of shape (nx, ny, nc): nx rows of ny vectors of nc components
HasShape(w, nx, ny, nc) ==
    /\ DOMAIN w = 0 .. nx - 1
    /\ \A x \in DOMAIN w :
          /\ DOMAIN w[x] = 0 .. ny - 1
          /\ \A y \in DOMAIN w[x] : DOMAIN w[x][y] = 1 .. nc

\* C17: for x_neurons, y_neurons >= 1, square or not, and a matrix of C channels the
\* weights have shape (x_neurons, y_neurons, C) after the initialization, after every
\* update step and when train_som returns them.
C17_ShapeKept ==
    /\ pc \in {"loop", "update", "trained"} =>
          HasShape(weights, x_neurons, y_neurons, NCols(pixel_mat))
    /\ n_updates >= 1 => HasShape(update_out, x_neurons, y_neurons, NCols(pixel_mat))
    /\ pc = "trained" => HasShape(result, x_neurons, y_neurons, NCols(pixel_mat))

C17_Witness ==
    /\ pc = "trained"
    /\ n_updates = 4
    /\ x_neurons = 1
    /\ y_neurons = 3
    /\ NCols(pixel_mat) = 2
    /\ Shape(result) = <<1, 3, 2>>

\* the end-to-end scenario: the four-row matrix, a 2 x 1 grid, one pass
Scenario ==
    /\ pixel_mat.rows = ScenarioRows
    /\ x_neurons = 2
    /\ y_neurons = 1
    /\ num_passes = 1

\* C18 (as claimed): in the scenario, for every seed, cluster_som on the matrix the
\* weights were trained on gives exactly 2 distinct labels, rows 0 and 2 sharing one
\* and rows 1 and 3 the other.
C18_TwoLabels == (Scenario /\ pc = "assigned") => call[2].value = <<0, 1, 0, 1>>

\* C18 (amended): in the scenario training and labelling never fail; rows 0 and 2
\* share a label and rows 1 and 3 share a label; there are 2 distinct labels exactly
\* when the vectors [1, 0] and [0, 1] win at different neurons of the trained weights,
\* and otherwise all four rows have label 0.
C18_TwoLabelsIfSeparated ==
    Scenario =>
        /\ pc \notin {"raised", "assign_raised"}
        /\ pc = "assigned" =>
              LET labels == call[2].value
                  separated == winner(<<One, 0>>, result).value # winner(<<0, One>>, result).value
              IN  /\ labels \in {<<0, 1, 0, 1>>, <<0, 0, 0, 0>>}
                  /\ labels = <<0, 1, 0, 1>> <=> separated

C18_Witness ==
    /\ Scenario
    /\ pc = "assigned"
    /\ n_updates = 4
    /\ call[2].value = <<0, 1, 0, 1>>
    /\ result # grid0
    /\ winner(<<One, 0>>, result).value = <<1, 0>>
    /\ winner(<<0, One>>, result).value = <<0, 0>>

----------------------------------------------------------------------------
(* Properties of winner and cluster_som *)

\* the coordinate winner finds for row i of the matrix on the weights the caller passed
WinningCoords(i) == winner(pixel_mat.rows[i], grid0).value

MaxOf(S) == CHOOSE m \in S : \A n \in S : n <= m

\* C6 (as claimed): a sample whose channel count differs from the last dimension of
\* the weights makes winner and cluster_som raise.
C6_MismatchRaises ==
    (call[1] \in {"winner", "cluster_som"} /\ NCols(pixel_mat) # Shape(grid0)[3]) =>
        result.raised # ""

\* C7: cluster_som returns one label per row; the labels are exactly 0 .. K - 1, K the
\* number of distinct winning coordinates of the rows, and two rows have the same label
\* exactly when their winning coordinates are the same pair of grid indices. With
\* matching channel counts it does return.
C7_DenseLabels ==
    call[1] = "cluster_som" =>
        /\ NCols(pixel_mat) = Shape(grid0)[3] => result.raised = ""
        /\ result.raised = "" =>
              LET labels == result.value
                  rows == 1 .. NRows(pixel_mat)
                  coords == [i \in rows |-> WinningCoords(i)]
              IN  /\ DOMAIN labels = rows
                  /\ Range(labels) = 0 .. Cardinality(Range(coords)) - 1
                  /\ \A i, j \in rows : labels[i] = labels[j] <=> coords[i] = coords[j]

C7_Witness ==
    /\ call[1] = "cluster_som"
    /\ result.raised = ""
    /\ result.value = <<0, 1, 0>>
    /\ WinningCoords(1)[1] = WinningCoords(2)[1]

\* C8: clusters are numbered by first occurrence in row order: row 0 has label 0, and
\* a later row has the label of an earlier row with its winning coordinate if there is
\* one and otherwise one more than the largest label of the rows before it.
C8_FirstOccurrence ==
    (call[1] = "cluster_som" /\ result.raised = "") =>
        LET labels == result.value
            coords == [i \in DOMAIN labels |-> WinningCoords(i)]
        IN  /\ labels[1] = 0
            /\ \A i \in 2 .. Len(labels) :
                  IF \E j \in 1 .. i - 1 : coords[j] = coords[i]
                  THEN \E j \in 1 .. i - 1 : coords[j] = coords[i] /\ labels[i] = labels[j]
                  ELSE labels[i] = 1 + MaxOf({labels[j] : j \in 1 .. i - 1})

C8_Witness ==
    /\ call[1] = "cluster_som"
    /\ result.raised = ""
    /\ result.value = <<0, 1, 2>>

\* C9: for a sample with the channel count of the weights, winner returns a coordinate
\* whose prototype is at the least Euclidean distance from the sample, and among the
\* neurons at that distance the one of least row-major flattened index x * Y + y.
C9_ArgminRowMajor ==
    (call[1] = "winner" /\ NCols(pixel_mat) = Shape(grid0)[3]) =>
        /\ result.raised = ""
        /\ result.value \in Cells(grid0)
        /\ LET dist == activation(pixel_mat.rows[1], grid0)
               ny == Shape(grid0)[2]
               win == result.value
           IN  \A c \in Cells(grid0) :
                  /\ dist[win[1]][win[2]] <= dist[c[1]][c[2]]
                  /\ dist[c[1]][c[2]] = dist[win[1]][win[2]] =>
                        win[1] * ny + win[2] <= c[1] * ny + c[2]

C9_Witness ==
    /\ call[1] = "winner"
    /\ NCols(pixel_mat) = Shape(grid0)[3]
    /\ Shape(grid0)[1] = 1
    /\ Shape(grid0)[2] = 3
    /\ result.value = <<0, 1>>
    /\ LET dist == activation(pixel_mat.rows[1], grid0)
       IN  /\ dist[0][2] = dist[0][1]
           /\ dist[0][0] > dist[0][1]

\* C10: winner and cluster_som only read the weights: after any sequence of their calls
\* the weights equal, neuron by neuron, the weights before the calls.
C10_ReadOnly ==
    pc = "assign" =>
        /\ Cells(weights) = Cells(grid0)
        /\ \A c \in Cells(grid0) : weights[c[1]][c[2]] = grid0[c[1]][c[2]]
        /\ result.weights = grid0

C10_Witness ==
    /\ call[1] = "cluster_som"
    /\ result.raised = ""
    /\ NRows(pixel_mat) = 3
    /\ Cardinality(Cells(weights)) = 3
    /\ weights = grid0

\* C19: the winner searches of the rows of cluster_som may run in any order: whatever
\* the order, each row gets the coordinates the row-order evaluation finds for it, and
\* the first-occurrence labelling in row order that follows gives the labels the
\* sequential cluster_som returns.
C19_AnyOrder ==
    /\ \A i \in DOMAIN winning_coords : winning_coords[i] = WinningCoords(i)
    /\ pc = "labelled" => result.value = cluster_som(pixel_mat, grid0).value

C19_Witness ==
    /\ pc = "labelled"
    /\ NRows(pixel_mat) = 3
    /\ t = 1
    /\ result.value = <<0, 1, 0>>

----------------------------------------------------------------------------
(* Properties of decay_function *)

\* the calls recorded in visited whose t lies in the range 0 <= t < num_iters
InRange(i) == num_iters > 0 /\ visited[i][1] < num_iters

\* C11 (as claimed): for every param and num_iters > 0, decay_function(param, 0,
\* num_iters) is param and the value at t1 is at least the value at t2 whenever
\* 0 <= t1 <= t2 < num_iters.
C11_MonotoneEveryParam ==
    \A i, j \in DOMAIN visited :
        /\ (InRange(i) /\ visited[i][1] = 0) => visited[i][2] = sigma
        /\ (InRange(i) /\ InRange(j) /\ visited[i][1] <= visited[j][1]) =>
              visited[i][2] >= visited[j][2]

\* C11 (amended): for num_iters > 0, decay_function(param, 0, num_iters) is param for
\* every param; for param >= 0 the value at t1 is at least the value at t2 whenever
\* 0 <= t1 <= t2 < num_iters, and for param < 0 it is at most that value.
C11_MonotoneBySign ==
    \A i, j \in DOMAIN visited :
        /\ InRange(i) => visited[i][2] \notin {NaN, NegInf, PosInf, ZeroDivisionError}
        /\ (InRange(i) /\ visited[i][1] = 0) => visited[i][2] = sigma
        /\ (InRange(i) /\ InRange(j) /\ visited[i][1] <= visited[j][1]) =>
              IF sigma >= 0 THEN visited[i][2] >= visited[j][2]
              ELSE visited[i][2] <= visited[j][2]

C11_Witness ==
    /\ Len(visited) = 2
    /\ sigma = DefaultSigma
    /\ num_iters = 4
    /\ visited[1] = <<0, DefaultSigma>>
    /\ visited[2][1] = 3
    /\ visited[2][2] = 400

----------------------------------------------------------------------------
(* Properties of update *)

Between(v, a, b) == (a <= v /\ v <= b) \/ (b <= v /\ v <= a)

\* the weight of each neuron in the call made
CallWeights == neighborhood(winning_coords, sigma, learning_rate, x_mesh, y_mesh)

\* C13 (as claimed): after one update call, with sigma and learning_rate positive,
\* every prototype is old + w * (sample - old) with one weight w per neuron,
\* 0 <= w <= learning_rate, and so lies on the segment between its prior value and the
\* sample.
C13_OnSegment ==
    (call[1] = "update" /\ sigma > 0 /\ learning_rate > 0) =>
        \A c \in Cells(grid0) :
            /\ 0 <= CallWeights[c[1]][c[2]]
            /\ CallWeights[c[1]][c[2]] <= learning_rate
            /\ \A k \in 1 .. Shape(grid0)[3] :
                  Between(update_out[c[1]][c[2]][k], grid0[c[1]][c[2]][k], loc(pixel_mat, 0)[k])

\* C13 (amended): for sigma # 0, after one update call every prototype is
\* old + w * (sample - old) with one weight w per neuron that lies between 0 and
\* learning_rate; when 0 <= learning_rate <= 1 the prototype lies on the segment
\* between its prior value and the sample, and the argument array is not changed.
C13_OnSegmentUpToOne ==
    (call[1] = "update" /\ sigma # 0) =>
        /\ weights = grid0
        /\ Cells(update_out) = Cells(grid0)
        /\ \A c \in Cells(grid0) :
              LET w   == CallWeights[c[1]][c[2]]
                  old == grid0[c[1]][c[2]]
                  new == update_out[c[1]][c[2]]
                  sample == loc(pixel_mat, 0)
              IN  /\ Between(w, 0, learning_rate)
                  /\ DOMAIN new = DOMAIN old
                  /\ \A k \in DOMAIN old :
                        /\ new[k] = old[k] + RoundDiv(w * (sample[k] - old[k]), One)
                        /\ (0 <= learning_rate /\ learning_rate <= One) =>
                              Between(new[k], old[k], sample[k])

C13_Witness ==
    /\ call[1] = "update"
    /\ sigma = DefaultSigma
    /\ learning_rate = DefaultLearningRate
    /\ Shape(grid0) = <<1, 2, 2>>
    /\ winning_coords = <<0, 0>>
    /\ loc(pixel_mat, 0) = <<One, 0>>
    /\ grid0[0][0] = <<0, One>>
    /\ update_out[0][0] = <<500, 500>>
    /\ CallWeights[0][1] > 0
    /\ CallWeights[0][1] < learning_rate

\* the weights of the grid of the call for a winner at w
WeightsAround(w) == neighborhood(w, sigma, learning_rate, x_mesh, y_mesh)

Sq(a) == a * a

\* C23: in an update call with sigma # 0 and learning_rate >= 0, on every grid shape
\* and for every winning coordinate (wx, wy), the weight of neuron (x, y) is the same
\* wherever (x - wx)^2 and (y - wy)^2 are the same, is the learning rate passed at the
\* winner itself, and does not rise as |x - wx| or |y - wy| grows; the prototype of the
\* winner becomes old + learning_rate * (sample - old).
C23_SeparableKernel ==
    (call[1] = "update" /\ sigma # 0 /\ learning_rate >= 0) =>
        /\ \A w1, w2 \in Cells(grid0) : \A c1, c2 \in Cells(grid0) :
              /\ (Sq(c1[1] - w1[1]) = Sq(c2[1] - w2[1]) /\ Sq(c1[2] - w1[2]) = Sq(c2[2] - w2[2]))
                    => WeightsAround(w1)[c1[1]][c1[2]] = WeightsAround(w2)[c2[1]][c2[2]]
              /\ (w1 = w2 /\ Sq(c1[1] - w1[1]) <= Sq(c2[1] - w1[1])
                           /\ Sq(c1[2] - w1[2]) <= Sq(c2[2] - w1[2]))
                    => WeightsAround(w1)[c1[1]][c1[2]] >= WeightsAround(w1)[c2[1]][c2[2]]
        /\ \A w \in Cells(grid0) : WeightsAround(w)[w[1]][w[2]] = learning_rate
        /\ \A k \in 1 .. Shape(grid0)[3] :
              update_out[winning_coords[1]][winning_coords[2]][k] =
                  grid0[winning_coords[1]][winning_coords[2]][k] +
                  RoundDiv(learning_rate * (loc(pixel_mat, 0)[k] -
                                            grid0[winning_coords[1]][winning_coords[2]][k]), One)

C23_Witness ==
    /\ call[1] = "update"
    /\ sigma = DefaultSigma
    /\ learning_rate = DefaultLearningRate
    /\ Shape(grid0)[1] = 3
    /\ Shape(grid0)[2] = 1
    /\ winning_coords = <<2, 0>>
    /\ CallWeights[2][0] = learning_rate
    /\ CallWeights[1][0] < CallWeights[2][0]
    /\ CallWeights[0][0] < CallWeights[1][0]
    /\ grid0[2][0] # loc(pixel_mat, 0)
    /\ update_out[2][0] # grid0[2][0]

----------------------------------------------------------------------------
(* Properties of split_large_nuclei *)

\* every nucleus that overlaps a cell lies entirely inside that cell
NucleiInsideCells ==
    \A cell \in RegionLabels(cell_segmentation_mask) :
        \A n \in RegionLabels(nuc_segmentation_mask) :
            Coords(nuc_segmentation_mask, n) \cap Coords(cell_segmentation_mask, cell) # {} =>
                Coords(nuc_segmentation_mask, n) \subseteq Coords(cell_segmentation_mask, cell)

\* C20: when every nucleus that overlaps a cell lies entirely inside that cell, as when
\* the nuclear mask equals the cell mask, split_large_nuclei relabels nothing and
\* returns a nuclear mask identical to its input.
C20_NoSplitNeeded ==
    NucleiInsideCells =>
        /\ pc = "split_loop" =>
              (nuc_mask_modified = nuc_segmentation_mask
               /\ max_nuc_id = MaxLabelOf(nuc_segmentation_mask))
        /\ pc = "split_done" => result = nuc_segmentation_mask

C20_Witness ==
    /\ pc = "split_done"
    /\ NucleiInsideCells
    /\ cell_segmentation_mask = <<1, 2, 2>>
    /\ nuc_segmentation_mask = cell_segmentation_mask
    /\ cell_ids = <<1, 2>>
    /\ result = <<1, 2, 2>>

\* a label the loop issued: one above every label of the input nuclear mask
IsFresh(label) == label > MaxLabelOf(nuc_segmentation_mask)

\* every pixel of the working mask keeps its label or carries a fresh one that the
\* counter has reached; the background stays 0 and no fresh label is in two cells
C24_FreshLabels ==
    pc \in {"split_loop", "split_done"} =>
        /\ DOMAIN nuc_mask_modified = DOMAIN nuc_segmentation_mask
        /\ max_nuc_id >= MaxLabelOf(nuc_segmentation_mask)
        /\ \A p \in DOMAIN nuc_mask_modified :
              /\ \/ nuc_mask_modified[p] = nuc_segmentation_mask[p]
                 \/ (IsFresh(nuc_mask_modified[p]) /\ nuc_mask_modified[p] <= max_nuc_id)
              /\ nuc_segmentation_mask[p] = 0 => nuc_mask_modified[p] = 0
        /\ \A p, q \in DOMAIN nuc_mask_modified :
              (IsFresh(nuc_mask_modified[p]) /\ nuc_mask_modified[p] = nuc_mask_modified[q])
                  => cell_segmentation_mask[p] = cell_segmentation_mask[q]
        /\ pc = "split_done" => result = nuc_mask_modified

\* C24: split_large_nuclei never modifies its input masks; in the mask it returns every
\* pixel keeps its nuclear label or carries a fresh label greater than every label of the
\* input nuclear mask; the counter of fresh labels only increases, so no two cells get
\* the same fresh label, and background pixels (label 0) stay 0.
C24_InputsKeptLabelsFresh ==
    /\ [](C24_FreshLabels)
    /\ [][/\ cell_segmentation_mask' = cell_segmentation_mask
          /\ nuc_segmentation_mask' = nuc_segmentation_mask
          /\ max_nuc_id' >= max_nuc_id
          /\ nuc_mask_modified' # nuc_mask_modified =>
                (pc = "split_start" \/ max_nuc_id' > max_nuc_id)]_vars

C24_Witness ==
    /\ pc = "split_done"
    /\ cell_segmentation_mask = <<1, 2, 0>>
    /\ nuc_segmentation_mask = <<1, 1, 0>>
    /\ cell_ids = <<2, 1>>
    /\ max_nuc_id = 3
    /\ result = <<3, 2, 0>>

----------------------------------------------------------------------------
(* Properties of transform_expression_matrix *)

Abs(a) == IF a < 0 THEN -a ELSE a

\* C21: transform_expression_matrix with transform 'size_norm' returns, for every cell
\* of size > 0, each channel value divided by the size of the cell, rounded to the last
\* digit kept (a channel of k times the size becomes k), returns the cell-size column and the
\* columns from 'label' on as they were, and does not modify its input array.
C21_Normalized ==
    (pc = "transform_done" /\ transform = "size_norm") =>
        /\ result.features = cell_data.features
        /\ DOMAIN result.values = DOMAIN cell_data.values
        /\ \A k \in DOMAIN cell_data.values :
              /\ DOMAIN result.values[k] = DOMAIN cell_data.values[k]
              /\ \A c \in DOMAIN cell_data.values[k] :
                    LET row  == cell_data.values[k][c]
                        out  == result.values[k][c]
                        size == row[1]
                        end  == channel_end(cell_data.features)
                    IN  /\ DOMAIN out = DOMAIN row
                        /\ out[1] = size
                        /\ \A f \in DOMAIN row : f - 1 >= end => out[f] = row[f]
                        /\ \A f \in DOMAIN row :
                              (size > 0 /\ f - 1 >= 1 /\ f - 1 < end) =>
                                  /\ 2 * Abs(out[f] * size - row[f] * One) <= size
                                  /\ \A n \in 0 .. 4 :
                                        row[f] = n * size => out[f] = n * One

C21_SizeNorm == [](C21_Normalized) /\ [][cell_data' = cell_data]_vars

C21_Witness ==
    /\ pc = "transform_done"
    /\ transform = "size_norm"
    /\ cell_data.features = <<"cell_size", "chan0", "chan1", "label", "area">>
    /\ cell_data.values = <<<< <<2 * One, 4 * One, 0, One, 2 * One>>,
                               <<One, 4 * One, 4 * One, 2 * One, 2 * One>> >>>>
    /\ result.values = <<<< <<2 * One, 2 * One, 0, One, 2 * One>>,
                            <<One, 4 * One, 4 * One, 2 * One, 2 * One>> >>>>

----------------------------------------------------------------------------
(* The range of the decayed sigma *)

\* line 74 of update: d = 2 * np.pi * sigma * sigma
KernelDenominator(sig) == FMul(FMul(FMul(2 * One, Pi), sig), sig)

\* a float, and not the mark of an exception
IsNumber(a) == a \notin {NaN, NegInf, PosInf, ZeroDivisionError}

\* the value lies in (param / 3, param]
InDecayRange(value, param) == IsNumber(value) /\ 3 * value > param /\ value <= param

\* C22: for sigma > 0 and T = num_passes * N >= 1 the decayed sigma of every step t in
\* [0, T) is greater than sigma / 3 and at most sigma, so the kernel denominator
\* 2 * pi * sigma^2 of no step is zero; decay_function does not raise for num_iters = 1.
C22_SigmaInRange ==
    sigma > 0 =>
        /\ n_updates = 0 =>
              /\ \A T \in 1 .. MaxIters : \A tt \in 0 .. T - 1 :
                    /\ InDecayRange(decay_function(sigma, tt, T), sigma)
                    /\ KernelDenominator(decay_function(sigma, tt, T)) # 0
              /\ decay_function(sigma, 0, 1) = sigma
        /\ (pc \in {"loop", "trained"} /\ n_updates >= 1) =>
              /\ TotalSteps >= 1
              /\ t - 1 < TotalSteps
              /\ InDecayRange(decay_sigma, sigma)
              /\ KernelDenominator(decay_sigma) # 0

C22_Witness ==
    /\ pc = "trained"
    /\ sigma = DefaultSigma
    /\ TotalSteps = 4
    /\ n_updates = 4
    /\ decay_sigma = 400
    /\ KernelDenominator(decay_sigma) = 1006

====
